---- MODULE Spec2Model ----
(***************************************************************************)
(* unchaos: the note store, the enrichment queue with its drain run        *)
(* (magick) and the location graph, as state machines over the rows of     *)
(* the relational store.                                                   *)
(***************************************************************************)
EXTENDS Integers, Sequences, FiniteSets, TLC

\* ------------------------------------------------------------------ bounds
MaxNotes == 2
MaxPathLen == 2
MaxOrd == 3
MaxStored == 3

\* ------------------------------------------------------------ the store
VARIABLES
  notes,     \* NoteDB rows with their links: note id -> [active, tags,
             \* entities, times]
  snippets,  \* SnippetDB rows with their links, in rowid order
  tokens,    \* TokenDB rows in the order of their ids: id and value
  obj,       \* the Note object the running command holds
  res,       \* what the last note command raised and returned
  queue,     \* QueueDB rows in rowid order
  session,   \* the interactive input session: [kind, note]
  pc,        \* position of the magick command
  tasks,     \* magick: the sorted task list of the run
  idx,       \* magick: index of the loop in tasks
  handled,   \* magick: queue ids passed to handle_queue_task, in order
  ai,        \* what the AI collaborator answers during the run
  last,      \* the last note/queue command that ran
  enqueued,  \* the notes passed to to_queue since the queue was last cleared
  nodes,     \* NodeDB rows
  edges,     \* EdgeDB rows
  lastLoc    \* the last get_or_create_location call

vars == <<notes, snippets, tokens, obj, res, queue, session, pc, tasks, idx,
          handled, ai, last, enqueued, nodes, edges, lastLoc>>
storeVars == <<snippets, tokens>>
noteVars == <<snippets, tokens, obj, res>>
runVars == <<pc, tasks, idx, handled, ai>>
graphVars == <<nodes, edges, lastLoc>>

\* types.py: QueueTask, QueueStatus
QueueTask == {"ASSIGN_METADATA", "SUGGEST_NODES", "EMBED"}
QueueStatus == {"PENDING", "PROCESSING", "COMPLETED", "FAILED"}

\* the order in which to_queue walks the task types
TaskList == <<"ASSIGN_METADATA", "SUGGEST_NODES", "EMBED">>

\* magick: order = {ASSIGN_METADATA: 1, SUGGEST_NODES: 2, EMBED: 3}
order == [t \in QueueTask |->
            CASE t = "ASSIGN_METADATA" -> 1
              [] t = "SUGGEST_NODES" -> 2
              [] t = "EMBED" -> 3]

Range(s) == {s[i] : i \in DOMAIN s}

MaxOf(S) == IF S = {} THEN 0 ELSE CHOOSE m \in S : \A x \in S : x <= m

\* the next autoincrement id of a table whose ids are ids: sqlite gives
\* max(rowid) + 1
NextId(ids) == MaxOf(ids) + 1

\* ------------------------------------------------------------- the queue

\* QueueDB(note_id=..., task=...): status defaults to PENDING
NewQueueRow(id, nid, task) ==
  [id |-> id, note_id |-> nid, task |-> task, status |-> "PENDING",
   status_details |-> "None"]

RECURSIVE AddTasks(_, _, _, _)
\* the loop of Note.to_queue over the task types, from position i
AddTasks(q, nid, existing, i) ==
  IF i > Len(TaskList) THEN q
  ELSE IF TaskList[i] \in existing
       THEN AddTasks(q, nid, existing, i + 1)
       ELSE AddTasks(
              Append(q, NewQueueRow(NextId({r.id : r \in Range(q)}), nid, TaskList[i])),
              nid, existing, i + 1)

\* the tasks to_queue finds already queued for the note
ExistingTasks(q, nid) == {r.task : r \in {x \in Range(q) : x.note_id = nid}}

ToQueueNoSkip(q, nid) == AddTasks(q, nid, {}, 1)

\* Note.to_queue
ToQueue(q, nid) == AddTasks(q, nid, ExistingTasks(q, nid), 1)

ClearOnlyCompleted(q) == SelectSeq(q, LAMBDA r : r.status # "COMPLETED")

\* clear_queue: db.query(QueueDB).delete()
ClearedQueue(q) == SelectSeq(q, LAMBDA r : FALSE)

KeepsQueueRows(q, nid) == q

\* NoteDB.queue, cascade="all, delete-orphan": the rows that go with a note
WithoutNote(q, nid) == SelectSeq(q, LAMBDA r : r.note_id # nid)

SortReversed(q) ==
  SelectSeq(q, LAMBDA r : order[r.task] = 3)
    \o SelectSeq(q, LAMBDA r : order[r.task] = 2)
    \o SelectSeq(q, LAMBDA r : order[r.task] = 1)

\* sorted(tasks, key=lambda task: order[task.task]): a stable sort on three keys
SortedTasks(q) ==
  SelectSeq(q, LAMBDA r : order[r.task] = 1)
    \o SelectSeq(q, LAMBDA r : order[r.task] = 2)
    \o SelectSeq(q, LAMBDA r : order[r.task] = 3)

\* ----------------------------------------------------- the AI collaborator

\* a string is the sequence of its characters; str.strip(c) takes the
\* characters c off both ends
RECURSIVE LStrip(_, _)
LStrip(s, c) == IF s # <<>> /\ Head(s) = c THEN LStrip(Tail(s), c) ELSE s

RECURSIVE RStrip(_, _)
RStrip(s, c) ==
  IF s # <<>> /\ s[Len(s)] = c THEN RStrip(SubSeq(s, 1, Len(s) - 1), c) ELSE s

Strip(s, c) == RStrip(LStrip(s, c), c)

\* NoteMetadata.strip_prefixes
StripPrefixes(m) ==
  [tags |-> [i \in DOMAIN m.tags |-> Strip(m.tags[i], "#")],
   entities |-> [i \in DOMAIN m.entities |-> Strip(m.entities[i], "@")]]

\* the tag and entity lists a NoteMetadata answer of the collaborator carries
TagLists == {<<>>, << <<"#", "t">> >>, << <<"t">>, <<"u", "#">> >>}
EntityLists == {<<>>, << <<"@", "e">> >>}

\* what the chat call of generate_formatted_output does during a run: it
\* raises ConnectionError, returns content that does not validate, or
\* returns a NoteMetadata
MetaAnswers ==
  {[kind |-> k, tags |-> <<>>, entities |-> <<>>] : k \in {"unavailable", "invalid"}}
    \cup {[kind |-> "ok", tags |-> ts, entities |-> es] :
            ts \in TagLists, es \in EntityLists}

\* SuggestedNodes.nested_nodes answers: a path is the sequence of its words
\* and separators
NodesAnswers ==
  {<<>>,
   << <<"Work", ">", "Alpha">> >>,
   << <<"Work">> >>,
   << <<"Work", ">", "Alpha">>, <<"Work", ">", "Beta">>,
      <<"Work", ">", "Projects">>, <<"Alpha", ">", "Beta">> >>}

NoAnswer == [meta |-> [kind |-> "none", tags |-> <<>>, entities |-> <<>>],
             nodes |-> <<>>]

\* the assertions of suggest_nodes_to_text on the collaborator's answer
SuggestNodesAccepts(nested_nodes) ==
  /\ Len(nested_nodes) <= 3
  /\ Len(nested_nodes) > 0
  /\ \A i \in DOMAIN nested_nodes :
       \E j \in DOMAIN nested_nodes[i] : nested_nodes[i][j] = ">"

\* assign_metadata_to_text: the exception it raises, or the stripped metadata
AssignMetadataToText(answer) ==
  IF answer.kind = "unavailable"
  THEN [raised |-> "ConnectionError", meta |-> [tags |-> <<>>, entities |-> <<>>]]
  ELSE IF answer.kind = "invalid"
  THEN [raised |-> "Exception", meta |-> [tags |-> <<>>, entities |-> <<>>]]
  ELSE [raised |-> "None", meta |-> StripPrefixes(answer)]

SetStatus(q, id, st, det) ==
  [i \in DOMAIN q |->
     IF q[i].id = id THEN [q[i] EXCEPT !.status = st, !.status_details = det]
     ELSE q[i]]

HandleMarksFailed(task, q, ns, a) ==
  IF task.task = "ASSIGN_METADATA"
  THEN LET out == AssignMetadataToText(a.meta) IN
         IF out.raised = "None"
         THEN [raised |-> "None", queue |-> q, notes |-> ns]
         ELSE [raised |-> out.raised,
               queue |-> SetStatus(q, task.id, "FAILED", out.raised),
               notes |-> ns]
  ELSE [raised |-> "None", queue |-> q, notes |-> ns]

\* handle_queue_task: both except clauses re-raise; the metadata is printed
\* and the status update is commented out
HandleQueueTask(task, q, ns, a) ==
  IF task.task = "ASSIGN_METADATA"
  THEN LET out == AssignMetadataToText(a.meta) IN
         [raised |-> out.raised, queue |-> q, notes |-> ns]
  ELSE [raised |-> "None", queue |-> q, notes |-> ns]

\* ------------------------------------------------------ the location graph

\* Graph.ROOT = "__ROOT__", the name of the root's NodeDB row
RootName == "__ROOT__"

\* the key of the root in the nx graph: fromDB keys the root by the string
\* Graph.ROOT and every other node by its integer id; the string, which no id
\* equals, is written 0 here
ROOT == 0

Names == {"Work", "Projects", "Alpha", "Beta"}

\* the locations given to graph add, as lists of node names
Paths == UNION {[1..n -> Names \ {"Beta"}] : n \in 1..MaxPathLen}

\* Graph.fromDB: the key under which a NodeDB row enters the nx graph
Key(n) == IF n.name = RootName THEN ROOT ELSE n.id

NxKeys(ns) == {Key(n) : n \in ns}

\* nx.Graph is undirected: the neighbours of a key are both ends of its edges
Neighbors(k, es) ==
  {e.to_node : e \in {x \in es : x.from_node = k}}
    \cup {e.from_node : e \in {x \in es : x.to_node = k}}

ChildrenOnly(k, es) == {e.to_node : e \in {x \in es : x.from_node = k}}

\* self.nx.nodes[n]["nodeDB"].name
NameOf(k, ns) == (CHOOSE n \in ns : Key(n) = k).name

FromDBOneName(ns, es) ==
  [keys |-> NxKeys(ns) \cup {e.from_node : e \in es} \cup {e.to_node : e \in es},
   name |-> [k \in NxKeys(ns) |-> "Work"],
   adj |-> {{e.from_node, e.to_node} : e \in es}]

\* Graph.fromDB: the nx graph built from the rows. Its nodes are the keys of
\* the NodeDB rows, carrying the rows' names, and whatever else an edge row
\* names; each edge row joins its two ends, in no direction
FromDB(ns, es) ==
  [keys |-> NxKeys(ns) \cup {e.from_node : e \in es} \cup {e.to_node : e \in es},
   name |-> [k \in NxKeys(ns) |-> NameOf(k, ns)],
   adj |-> {{e.from_node, e.to_node} : e \in es}]

\* self.nx.add_node(new_node_db.id, nodeDB=new_node_db, note_ids=[])
NxAddNode(g, id, name) ==
  [g EXCEPT !.keys = @ \cup {id},
            !.name = [k \in DOMAIN @ \cup {id} |-> IF k = id THEN name ELSE @[k]]]

NxForgetsEdge(g, u, v) == g

\* self.nx.add_edge(curr_node_id, new_node_db.id)
NxAddEdge(g, u, v) ==
  [g EXCEPT !.keys = @ \cup {u, v}, !.adj = @ \cup {{u, v}}]

\* self.nx.neighbors(k)
NxNeighbors(k, g) == {n \in g.keys : {k, n} \in g.adj}

NeverMatches(curr, name, g) == {}

\* the matching_neighbors of get_or_create_location
MatchingNeighbors(curr, name, g) ==
  {k \in NxNeighbors(curr, g) : g.name[k] = name}

NoEdge(es, from, to) == es

\* db.add(EdgeDB(from_node=curr_node_id, to_node=new_node_db.id))
WithEdge(es, from, to) == es \cup {[from_node |-> from, to_node |-> to]}

LocResult(ok, err, ret, ns, es, g) ==
  [ok |-> ok, err |-> err, ret |-> ret, nodes |-> ns, edges |-> es, nx |-> g]

RECURSIVE Walk(_, _, _, _, _, _)
\* the loop of get_or_create_location over the node names, from position i
\* with the pointer at curr: ns, es the stored rows, g the nx graph of the
\* Graph object. NodeDB.name is unique: the commit of a node whose name some
\* row already has raises IntegrityError
Walk(location, i, curr, ns, es, g) ==
  IF i > Len(location) THEN LocResult(TRUE, "None", curr, ns, es, g)
  ELSE LET matching == MatchingNeighbors(curr, location[i], g) IN
    IF Cardinality(matching) > 1
    THEN LocResult(FALSE, "ValueError: Multiple nodes", curr, ns, es, g)
    ELSE IF matching # {}
    THEN Walk(location, i + 1, CHOOSE k \in matching : TRUE, ns, es, g)
    ELSE IF \E n \in ns : n.name = location[i]
    THEN LocResult(FALSE, "IntegrityError", curr, ns, es, g)
    ELSE LET id == NextId({n.id : n \in ns}) IN
           Walk(location, i + 1, id,
                ns \cup {[id |-> id, name |-> location[i]]},
                WithEdge(es, curr, id),
                NxAddEdge(NxAddNode(g, id, location[i]), curr, id))

\* Graph.get_or_create_location of the Graph object g on the rows ns, es
GetOrCreateLocation(location, ns, es, g) ==
  IF ROOT \notin g.keys
  THEN LocResult(FALSE, "ValueError: Root node not found", ROOT, ns, es, g)
  ELSE Walk(location, 1, ROOT, ns, es, g)

RECURSIVE InitLoop(_, _, _, _, _)
\* Graph.initDB: the loop over root_locations on the one Graph object G, as
\* the list of the results of its get_or_create_location calls; an exception
\* ends it
InitLoop(locs, i, ns, es, g) ==
  IF i > Len(locs) THEN << >>
  ELSE LET r == GetOrCreateLocation(locs[i], ns, es, g) IN
         IF r.ok THEN <<r>> \o InitLoop(locs, i + 1, r.nodes, r.edges, r.nx)
         ELSE <<r>>

\* Graph.initDB: the root row is created when it is missing
WithRoot(ns) ==
  IF \E n \in ns : n.name = RootName THEN ns
  ELSE ns \cup {[id |-> NextId({n.id : n \in ns}), name |-> RootName]}

RECURSIVE Joined(_)
\* a segment of a configured location is written as the list of the pieces
\* that its "|" characters separate; the node name that
\* split_location_to_nodes gives for it is the segment as typed
Joined(segment) ==
  IF Len(segment) = 1 THEN segment[1]
  ELSE segment[1] \o "|" \o Joined(Tail(segment))

Unexpanded(loc) == <<[i \in DOMAIN loc |-> Joined(loc[i])]>>

\* init_graph on one configured location: a last segment with a "|" gives one
\* list of names per piece, each with the names before it
Expanded(loc) ==
  LET node_names == [i \in DOMAIN loc |-> Joined(loc[i])]
      last_node == loc[Len(loc)]
  IN IF Len(last_node) > 1
     THEN [j \in DOMAIN last_node |->
             SubSeq(node_names, 1, Len(loc) - 1) \o <<last_node[j]>>]
     ELSE <<node_names>>

RECURSIVE ExpandRoots(_)
\* init_graph: root_locations_expanded
ExpandRoots(root_locations) ==
  IF root_locations = << >> THEN << >>
  ELSE Expanded(Head(root_locations)) \o ExpandRoots(Tail(root_locations))

\* the location "a > b" as configured
Loc1(a) == << <<a>> >>
Loc2(a, b) == << <<a>>, <<b>> >>
Loc3(a, b, c) == << <<a>>, <<b>>, <<c>> >>

\* "Work > Projects|Alpha", a location with two last names
WorkProjectsOrAlpha == << <<"Work">>, <<"Projects", "Alpha">> >>

\* graph.roots of the configuration
RootConfigs ==
  {<<>>,
   <<Loc1("Work")>>,
   <<WorkProjectsOrAlpha>>,
   <<Loc3("Work", "Projects", "Alpha"), Loc3("Work", "Projects", "Alpha")>>,
   << << <<"Work">>, <<"Projects">>, <<"Alpha", "Beta">> >> >>,
   <<Loc2("Work", "Alpha"), Loc2("Projects", "Alpha")>>,
   <<Loc3("Work", "Projects", "Work")>>}

RECURSIVE ExistingLen(_, _, _, _, _)
\* how many leading names of a location exist as a parent-to-child chain
\* under the root
ExistingLen(location, i, curr, ns, es) ==
  IF i > Len(location) THEN i - 1
  ELSE LET ch == {k \in ChildrenOnly(curr, es) : NameOf(k, ns) = location[i]} IN
         IF ch = {} THEN i - 1
         ELSE ExistingLen(location, i + 1, CHOOSE k \in ch : TRUE, ns, es)

\* how two consecutive locations of one initDB run relate
Relation(prev, location) ==
  IF prev = location THEN "same"
  ELSE IF /\ Len(prev) = Len(location)
          /\ SubSeq(prev, 1, Len(prev) - 1) = SubSeq(location, 1, Len(location) - 1)
       THEN "sibling"
       ELSE IF /\ Len(prev) = Len(location)
               /\ prev[Len(prev)] = location[Len(location)]
            THEN "cousin"
            ELSE "other"

\* what is kept of a get_or_create_location call: r its result on the rows
\* ns, es, rel its relation to the call before it in the same run, which
\* returned prevRet
LocRecord(location, r, ns, es, rel, prevRet) ==
  [ok |-> r.ok, err |-> r.err, ret |-> r.ret, len |-> Len(location),
   nx |-> r.nx,
   newNodes |-> Cardinality(r.nodes) - Cardinality(ns),
   newEdges |-> Cardinality(r.edges) - Cardinality(es),
   missing |-> Len(location) - ExistingLen(location, 1, ROOT, ns, es),
   rel |-> rel, prevRet |-> prevRet]

\* graph.roots of the configuration file that cli init writes
DefaultRoots == <<Loc1("Work"), Loc1("Personal"), Loc1("Household")>>

NoLoc == [ok |-> FALSE, err |-> "None", ret |-> ROOT, len |-> 0,
          nx |-> FromDB({}, {}), newNodes |-> 0, newEdges |-> 0,
          missing |-> 0, rel |-> "none", prevRet |-> -1]

\* ------------------------------------------------------- texts and tokens

\* a text is the sequence of its characters; the characters [\w-] matches
WordChars == {"a", "b", "e", "x"}

RECURSIVE RunEnd(_, _)
\* the end of the run of [\w-] characters of s that starts at j, j - 1 when
\* s[j] is no such character
RunEnd(s, j) ==
  IF j <= Len(s) /\ s[j] \in WordChars THEN RunEnd(s, j + 1) ELSE j - 1

RECURSIVE FindAll(_, _, _)
\* re.findall of c([\w-]+) in s from position i: the set of the captured
\* groups (no text here holds a double quote, the pattern's other branch)
FindAll(s, i, c) ==
  IF i > Len(s) THEN {}
  ELSE IF s[i] = c /\ RunEnd(s, i + 1) > i
       THEN {SubSeq(s, i + 1, RunEnd(s, i + 1))}
              \cup FindAll(s, RunEnd(s, i + 1) + 1, c)
       ELSE FindAll(s, i + 1, c)

\* extract_tags_and_entities
ExtractTagsAndEntities(text) ==
  [tags |-> FindAll(text, 1, "#"), entities |-> FindAll(text, 1, "@")]

RECURSIVE Split(_, _, _)
\* str.split(): the whitespace-delimited words of s from position i, with
\* cur the word being read
Split(s, i, cur) ==
  IF i > Len(s) THEN (IF cur = << >> THEN << >> ELSE <<cur>>)
  ELSE IF s[i] = " "
       THEN (IF cur = << >> THEN << >> ELSE <<cur>>) \o Split(s, i + 1, << >>)
       ELSE Split(s, i + 1, Append(cur, s[i]))

\* containsTagsOnly
ContainsTagsOnly(text) ==
  LET tokens_ == Split(text, 1, << >>) IN
    \A i \in DOMAIN tokens_ : Head(tokens_[i]) = "#"

\* the texts typed into a note: "#a #b", "x #a", "x #b @e", "x#a"
Texts ==
  {<<"#", "a", " ", "#", "b">>,
   <<"x", " ", "#", "a">>,
   <<"x", " ", "#", "b", " ", "@", "e">>,
   <<"x", "#", "a">>}

\* ---------------------------------------------------- notes and snippets

\* a SnippetDB row of a note with its SnippetTagDB and SnippetEntityDB links
SnippetRow(id, nid, content) ==
  [id |-> id, note_id |-> nid, content |-> content,
   tags |-> ExtractTagsAndEntities(content).tags,
   entities |-> ExtractTagsAndEntities(content).entities]

\* the database files the commands are run on: notes with note-level links,
\* snippets with their links, and the tokens (one of them linked nowhere)
TokenRow(id, value) == [id |-> id, value |-> value]

\* the values of the TokenDB rows
ValuesOf(tk) == {tk[i].value : i \in DOMAIN tk}

AlwaysInserts(value, tk) ==
  [token |-> TokenRow(NextId({tk[i].id : i \in DOMAIN tk}), value),
   tokens |-> Append(tk, TokenRow(NextId({tk[i].id : i \in DOMAIN tk}), value))]

\* get_or_create_token: the first row with the value, or a new row added
\* and committed
GetOrCreateToken(value, tk) ==
  IF \E i \in DOMAIN tk : tk[i].value = value
  THEN [token |-> tk[CHOOSE i \in DOMAIN tk :
                       /\ tk[i].value = value
                       /\ \A j \in 1..(i - 1) : tk[j].value # value],
        tokens |-> tk]
  ELSE LET token == TokenRow(NextId({tk[i].id : i \in DOMAIN tk}), value) IN
         [token |-> token, tokens |-> Append(tk, token)]

\* get_or_create_url: the same query and insert on the same table
GetOrCreateUrl(value, tk) ==
  IF \E i \in DOMAIN tk : tk[i].value = value
  THEN [token |-> tk[CHOOSE i \in DOMAIN tk :
                       /\ tk[i].value = value
                       /\ \A j \in 1..(i - 1) : tk[j].value # value],
        tokens |-> tk]
  ELSE LET url == TokenRow(NextId({tk[i].id : i \in DOMAIN tk}), value) IN
         [token |-> url, tokens |-> Append(tk, url)]

Stores ==
  {[notes |-> (1 :> [active |-> TRUE, tags |-> {}, entities |-> {}, times |-> {}]),
    snippets |-> << >>,
    tokens |-> << >>],
   [notes |-> (1 :> [active |-> TRUE, tags |-> {<<"a">>}, entities |-> {},
                     times |-> {}])
                @@ (2 :> [active |-> FALSE, tags |-> {<<"b">>},
                          entities |-> {<<"e">>}, times |-> {}]),
    snippets |-> <<SnippetRow(1, 1, <<"x", " ", "#", "a">>),
                   SnippetRow(2, 2, <<"x", "#", "a">>),
                   SnippetRow(3, 1, <<"x", " ", "#", "b", " ", "@", "e">>)>>,
    tokens |-> <<TokenRow(1, <<"a">>), TokenRow(2, <<"b">>),
                 TokenRow(3, <<"e">>)>>],
   [notes |-> (1 :> [active |-> TRUE, tags |-> {}, entities |-> {},
                     times |-> {"2025"}]),
    snippets |-> <<SnippetRow(1, 1, <<"x", " ", "#", "b", " ", "@", "e">>)>>,
    tokens |-> <<TokenRow(1, <<"b">>), TokenRow(2, <<"e">>),
                 TokenRow(3, <<"x">>)>>]}

\* the SnippetDB rows of a note, NoteDB.snippets
SnippetsOf(sn, nid) == SelectSeq(sn, LAMBDA r : r.note_id = nid)

\* Note.fromDBobject: the Note object of a row; its Snippet objects are
\* built without times
FromDBobject(nid, ns, sn) ==
  [id |-> nid, active |-> ns[nid].active,
   tags |-> ns[nid].tags, entities |-> ns[nid].entities,
   times |-> ns[nid].times,
   snippets |-> [i \in DOMAIN SnippetsOf(sn, nid) |->
                   [id |-> SnippetsOf(sn, nid)[i].id,
                    content |-> SnippetsOf(sn, nid)[i].content,
                    tags |-> SnippetsOf(sn, nid)[i].tags,
                    entities |-> SnippetsOf(sn, nid)[i].entities,
                    times |-> {}]]]

\* no Note object is held
NoObj == [id |-> 0, active |-> FALSE, tags |-> {}, entities |-> {},
          times |-> {}, snippets |-> << >>]

RECURSIVE Updated(_, _, _)
\* "for snippet in self.snippets: acc.update(snippet.<field>)" from position i
Updated(acc, sets, i) ==
  IF i > Len(sets) THEN acc ELSE Updated(acc \cup sets[i], sets, i + 1)

TokensOwnOnly(own, sets) == [all |-> own, own |-> own]

\* Note.tagsAll, entitiesAll, timesAll on the note's own set and the list of
\* its snippets' sets: the members of the returned list, and the note's own
\* set after the call (the loop updates a copy)
TokensAll(own, sets) == [all |-> Updated(own, sets, 1), own |-> own]

TagsAll(o) == TokensAll(o.tags, [i \in DOMAIN o.snippets |-> o.snippets[i].tags])
EntitiesAll(o) ==
  TokensAll(o.entities, [i \in DOMAIN o.snippets |-> o.snippets[i].entities])
TimesAll(o) == TokensAll(o.times, [i \in DOMAIN o.snippets |-> o.snippets[i].times])

\* the ids of a table in rowid order
IdsInOrder(ids) == SelectSeq([i \in 1..MaxOf(ids) |-> i], LAMBDA i : i \in ids)

\* the filter lists given to cli list: none, "#a", "@e", "x", and "#a" "x"
FilterLists ==
  {<< >>, << <<"#", "a">> >>, << <<"@", "e">> >>, << <<"x">> >>,
   << <<"#", "a">>, <<"x">> >>}

\* Note.search: a non-empty filter list raises; the query of the empty one
\* carries no condition
Search(filters, ns) ==
  IF filters # << >>
  THEN [raised |-> "NotImplementedError", ids |-> << >>]
  ELSE [raised |-> "None", ids |-> IdsInOrder(DOMAIN ns)]

\* cli list: the table row of a note
TableRow(o) ==
  [id |-> o.id, snippets |-> Len(o.snippets),
   tags |-> TagsAll(o).all, entities |-> EntitiesAll(o).all,
   times |-> TimesAll(o).all, own |-> [tags |-> TagsAll(o).own,
                                      entities |-> EntitiesAll(o).own,
                                      times |-> TimesAll(o).own]]

\* ------------------------------------------------------------ the commands

NoSession == [kind |-> "none", note |-> 0]
Idle == pc = "idle" /\ session = NoSession

Last(op, n, again, removed) ==
  [op |-> op, note |-> n, again |-> again, removed |-> removed]

\* Note.persist of a note without id: the new NoteDB row
NewNoteRow == [active |-> TRUE, tags |-> {}, entities |-> {}, times |-> {}]

WithNote(ns, id, row) ==
  [n \in DOMAIN ns \cup {id} |-> IF n = id THEN row ELSE ns[n]]

\* db.delete(note)
WithoutNoteRow(ns, id) == [n \in DOMAIN ns \ {id} |-> ns[n]]

\* what a note command raised, its text and ordinal arguments, the length
\* of the object's snippet list before it, and what it returned
Res(raised, text, ord, len, ret) ==
  [raised |-> raised, text |-> text, ord |-> ord, len |-> len, ret |-> ret]

NoRes == Res("None", << >>, 0, 0, << >>)

KeepsAllSnippets(sn, nid) == sn

\* NoteDB.snippets, cascade="all, delete-orphan": the snippet rows and their
\* links go with the note
WithoutSnippetsOf(sn, nid) == SelectSeq(sn, LAMBDA r : r.note_id # nid)

Init ==
  /\ notes = << >>
  /\ snippets = << >>
  /\ tokens = << >>
  /\ obj = NoObj
  /\ res = NoRes
  /\ queue = << >>
  /\ session = NoSession
  /\ pc = "idle"
  /\ tasks = << >>
  /\ idx = 0
  /\ handled = << >>
  /\ ai = NoAnswer
  /\ last = Last("none", 0, FALSE, 0)
  /\ enqueued = {}
  /\ nodes = {}
  /\ edges = {}
  /\ lastLoc = NoLoc

\* the input loop of Note.input is running
InSession == session.kind \notin {"none", "creating"}

\* cli create, up to note.persist(): the NoteDB row is committed; the SIGINT
\* handler is not installed yet
Create ==
  /\ Idle
  /\ NextId(DOMAIN notes) <= MaxNotes
  /\ LET id == NextId(DOMAIN notes) IN
       /\ notes' = WithNote(notes, id, NewNoteRow)
       /\ session' = [kind |-> "creating", note |-> id]
       /\ obj' = FromDBobject(id, notes', snippets)
       /\ last' = Last("create", id, FALSE, 0)
  /\ res' = NoRes
  /\ UNCHANGED <<storeVars, queue, enqueued, runVars, graphVars>>

\* cli create: signal.signal(signal.SIGINT, handle_interrupt), then
\* note.input() starts the input loop
InstallHandler ==
  /\ session.kind = "creating"
  /\ session' = [session EXCEPT !.kind = "create"]
  /\ last' = Last("install_handler", session.note, FALSE, 0)
  /\ UNCHANGED <<notes, noteVars, queue, enqueued, runVars, graphVars>>

\* cli create, Ctrl+C between note.persist() and signal.signal: Python's
\* default handler raises KeyboardInterrupt and the command ends; nothing
\* deletes the row that note.persist() committed
KeyboardInterrupt ==
  /\ session.kind = "creating"
  /\ last' = Last("keyboard_interrupt", session.note, FALSE, 0)
  /\ session' = NoSession
  /\ obj' = NoObj
  /\ res' = NoRes
  /\ UNCHANGED <<notes, storeVars, queue, enqueued, runVars, graphVars>>

\* cli edit: Note.get, note.display, then the input session starts.
\* Snippet.display reads self.urls, which Snippet does not have: the display
\* of a note with a snippet raises AttributeError
Edit(n) ==
  /\ Idle
  /\ n \in DOMAIN notes
  /\ IF SnippetsOf(snippets, n) # << >>
     THEN /\ last' = Last("edit_crashed", n, FALSE, 0)
          /\ UNCHANGED <<session, obj>>
     ELSE /\ session' = [kind |-> "edit", note |-> n]
          /\ obj' = FromDBobject(n, notes, snippets)
          /\ last' = Last("edit", n, FALSE, 0)
  /\ res' = NoRes
  /\ UNCHANGED <<notes, storeVars, queue, enqueued, runVars, graphVars>>

\* Note.input, handle_exit: to_queue and exit. Ctrl+D, /exit, and in an edit
\* session (which installs no SIGINT handler) the click.Abort of Ctrl+C
Finish ==
  /\ InSession
  /\ queue' = ToQueue(queue, session.note)
  /\ enqueued' = enqueued \cup {session.note}
  /\ last' = Last("to_queue", session.note, session.note \in enqueued, 0)
  /\ session' = NoSession
  /\ obj' = NoObj
  /\ res' = NoRes
  /\ UNCHANGED <<notes, storeVars, runVars, graphVars>>

\* the answers typed at the confirmation prompt
Answers == {"y", "Yes", "n"}

\* confirmation.lower()
Lower(answer) == IF answer = "Yes" THEN "yes" ELSE answer

AnyAnswer(confirm, answer) == TRUE

\* Note.delete and Note.deleteAll: without confirm nothing is asked, with it
\* only the answers y and yes, in any case, let the deletion go on
Confirmed(confirm, answer) == ~confirm \/ Lower(answer) \in {"y", "yes"}

\* cli create, handle_interrupt: note.delete(confirm=False) and exit
Interrupt ==
  /\ session.kind = "create"
  /\ session.note \in DOMAIN notes
  /\ Confirmed(FALSE, "")
  /\ notes' = WithoutNoteRow(notes, session.note)
  /\ queue' = WithoutNote(queue, session.note)
  /\ enqueued' = enqueued \ {session.note}
  /\ snippets' = WithoutSnippetsOf(snippets, session.note)
  /\ last' = Last("interrupt", session.note, FALSE, 0)
  /\ session' = NoSession
  /\ obj' = NoObj
  /\ res' = NoRes
  /\ UNCHANGED <<tokens, runVars, graphVars>>

\* Note.input, /archive: Note.archive, and the session ends
Archive ==
  /\ InSession
  /\ notes' = [notes EXCEPT ![session.note].active = FALSE]
  /\ last' = Last("archive", session.note, FALSE, 0)
  /\ session' = NoSession
  /\ obj' = NoObj
  /\ res' = NoRes
  /\ UNCHANGED <<storeVars, queue, enqueued, runVars, graphVars>>

\* cli delete <id>: Note.deleteAll(id) with the confirmation asked once a
\* note is found; res.ret keeps the answer typed
Delete(n, answer) ==
  /\ Idle
  /\ IF n \in DOMAIN notes /\ Confirmed(TRUE, answer)
     THEN /\ notes' = WithoutNoteRow(notes, n)
          /\ snippets' = WithoutSnippetsOf(snippets, n)
          /\ queue' = WithoutNote(queue, n)
          /\ enqueued' = enqueued \ {n}
          /\ last' = Last("delete", n, FALSE, 0)
     ELSE /\ last' = Last("delete_none", n, FALSE, 0)
          /\ UNCHANGED <<notes, snippets, queue, enqueued>>
  /\ res' = IF n \in DOMAIN notes THEN Res("None", << >>, 0, 0, answer)
            ELSE NoRes
  /\ UNCHANGED <<tokens, obj, session, runVars, graphVars>>

\* cli delete <id>, confirmed, in another terminal while a magick command is
\* between two turns of its loop
DeleteDuringMagick(n) ==
  /\ pc = "loop"
  /\ session = NoSession
  /\ n \in DOMAIN notes
  /\ Confirmed(TRUE, "y")
  /\ notes' = WithoutNoteRow(notes, n)
  /\ snippets' = WithoutSnippetsOf(snippets, n)
  /\ queue' = WithoutNote(queue, n)
  /\ enqueued' = enqueued \ {n}
  /\ last' = Last("delete", n, FALSE, 0)
  /\ res' = Res("None", << >>, 0, 0, "y")
  /\ UNCHANGED <<tokens, obj, session, runVars, graphVars>>

\* cli queue add <note_id>
QueueAdd(n) ==
  /\ Idle
  /\ IF n \in DOMAIN notes
     THEN /\ queue' = ToQueue(queue, n)
          /\ enqueued' = enqueued \cup {n}
          /\ last' = Last("to_queue", n, n \in enqueued, 0)
     ELSE /\ last' = Last("queue_add_none", n, FALSE, 0)
          /\ UNCHANGED <<queue, enqueued>>
  /\ UNCHANGED <<notes, noteVars, session, runVars, graphVars>>

\* cli queue clear: clear_queue
QueueClear ==
  /\ Idle
  /\ queue' = ClearedQueue(queue)
  /\ enqueued' = {}
  /\ last' = Last("clear_queue", 0, FALSE, Len(queue))
  /\ UNCHANGED <<notes, noteVars, session, runVars, graphVars>>

\* ------------------------------------------------------- magick, the drain

\* magick: list_queue, the sort, and what the collaborator will answer
MagickStart ==
  /\ Idle
  /\ \E m \in MetaAnswers, nd \in NodesAnswers : ai' = [meta |-> m, nodes |-> nd]
  /\ tasks' = SortedTasks(queue)
  /\ idx' = 1
  /\ handled' = << >>
  /\ pc' = "loop"
  /\ last' = Last("magick", 0, FALSE, 0)
  /\ UNCHANGED <<notes, noteVars, queue, session, enqueued, graphVars>>

\* magick: one turn of "for task in tasks": a task whose note is missing is
\* skipped, an exception of the handler ends the command, and the break
\* after the first handled task ends the loop
MagickStep ==
  /\ pc = "loop"
  /\ IF idx > Len(tasks)
     THEN /\ pc' = "done"
          /\ last' = Last("magick_step", 0, FALSE, 0)
          /\ UNCHANGED <<notes, queue, idx, handled>>
     ELSE IF tasks[idx].note_id \notin DOMAIN notes
     THEN /\ idx' = idx + 1
          /\ last' = Last("magick_skip", tasks[idx].note_id, FALSE, 0)
          /\ UNCHANGED <<notes, queue, pc, handled>>
     ELSE \E r \in {HandleQueueTask(tasks[idx], queue, notes, ai)} :
            /\ handled' = Append(handled, tasks[idx].id)
            /\ queue' = r.queue
            /\ notes' = r.notes
            /\ pc' = IF r.raised # "None" THEN "crashed" ELSE "done"
            /\ last' = Last("magick_step", 0, FALSE, 0)
            /\ UNCHANGED idx
  /\ UNCHANGED <<noteVars, session, tasks, ai, enqueued, graphVars>>

\* the magick process exits
MagickEnd ==
  /\ pc \in {"done", "crashed"}
  /\ pc' = "idle"
  /\ tasks' = << >>
  /\ idx' = 0
  /\ handled' = << >>
  /\ ai' = NoAnswer
  /\ last' = Last("magick_exit", 0, FALSE, 0)
  /\ UNCHANGED <<notes, noteVars, queue, session, enqueued, graphVars>>

\* ------------------------------------------------------ the graph commands

\* cli graph init: the configured roots are expanded and Graph.initDB adds
\* them; res.text keeps the configured roots
InitGraph(root_locations) ==
  /\ Idle
  /\ \E roots \in {ExpandRoots(root_locations)} :
     \E tr \in {InitLoop(roots, 1, WithRoot(nodes), edges,
                          FromDB(WithRoot(nodes), edges))} :
       IF tr = << >>
       THEN /\ nodes' = WithRoot(nodes)
            /\ UNCHANGED edges
            /\ lastLoc' = NoLoc
       ELSE LET k == Len(tr)
                before == IF k = 1
                          THEN [nodes |-> WithRoot(nodes), edges |-> edges]
                          ELSE tr[k - 1]
            IN /\ nodes' = tr[k].nodes
               /\ edges' = tr[k].edges
               /\ lastLoc' =
                    IF k = 1
                    THEN LocRecord(roots[k], tr[k], before.nodes, before.edges,
                                   "first", -1)
                    ELSE LocRecord(roots[k], tr[k], before.nodes, before.edges,
                                   Relation(roots[k - 1], roots[k]), tr[k - 1].ret)
  /\ last' = Last("graph_init", 0, FALSE, 0)
  /\ res' = Res("None", root_locations, 0, 0, << >>)
  /\ UNCHANGED <<notes, storeVars, obj, queue, session, enqueued, runVars>>

\* cli graph add <location>: Graph.fromDB().get_or_create_location
AddNode(location) ==
  /\ Idle
  /\ \E r \in {GetOrCreateLocation(location, nodes, edges,
                                    FromDB(nodes, edges))} :
       /\ nodes' = r.nodes
       /\ edges' = r.edges
       /\ lastLoc' = LocRecord(location, r, nodes, edges, "first", -1)
  /\ last' = Last("graph_add", 0, FALSE, 0)
  /\ res' = NoRes
  /\ UNCHANGED <<notes, storeVars, obj, queue, session, enqueued, runVars>>

\* ------------------------------------------------------ the note commands

\* Note.get by a caller that keeps the object
NoteGet(n) ==
  /\ Idle
  /\ IF n \in DOMAIN notes
     THEN /\ session' = [kind |-> "api", note |-> n]
          /\ obj' = FromDBobject(n, notes, snippets)
          /\ last' = Last("get", n, FALSE, 0)
     ELSE /\ last' = Last("get_none", n, FALSE, 0)
          /\ UNCHANGED <<session, obj>>
  /\ res' = NoRes
  /\ UNCHANGED <<notes, storeVars, queue, enqueued, runVars, graphVars>>

\* Note.add_snippet: "urls = extract_urls(content)" names a function that
\* models.py does not import, so the call raises NameError after the tags
\* and entities are extracted and before anything is stored
AddSnippetTo(o, content, ns, sn, tk) ==
  [raised |-> "NameError", obj |-> o, notes |-> ns, snippets |-> sn,
   tokens |-> tk]

\* add_snippet on the held object; the exception ends an input session
AddSnippet(content) ==
  /\ InSession
  /\ \E r \in {AddSnippetTo(obj, content, notes, snippets, tokens)} :
       /\ notes' = r.notes
       /\ snippets' = r.snippets
       /\ tokens' = r.tokens
       /\ res' = Res(r.raised, content, 0, Len(obj.snippets), << >>)
       /\ IF r.raised # "None" /\ session.kind # "api"
          THEN session' = NoSession /\ obj' = NoObj
          ELSE session' = session /\ obj' = r.obj
  /\ last' = Last("add_snippet", session.note, FALSE, 0)
  /\ UNCHANGED <<queue, enqueued, runVars, graphVars>>

\* self.snippets[snippet_ord-1]: the position a list index reaches, 0 when
\* it raises IndexError (index -1 is the last element)
ListIndex(ord, len) ==
  IF ord >= 1 /\ ord <= len THEN ord
  ELSE IF ord = 0 /\ len >= 1 THEN len
  ELSE 0

\* Snippet.persist of a snippet with an id: the row's content is committed,
\* then the link loops read new_snippet, bound only in the other branch
\* (UnboundLocalError after get_or_create_token of the first tag or entity),
\* or with no tag and no entity self.urls is read (AttributeError)
PersistExisting(s, sn, tk) ==
  IF ~\E i \in DOMAIN sn : sn[i].id = s.id
  THEN {[raised |-> "ValueError", snippets |-> sn, tokens |-> tk]}
  ELSE LET written == [i \in DOMAIN sn |->
                         IF sn[i].id = s.id
                         THEN [sn[i] EXCEPT !.content = s.content]
                         ELSE sn[i]]
       IN IF s.tags # {}
          THEN {[raised |-> "UnboundLocalError", snippets |-> written,
                 tokens |-> GetOrCreateToken(t, tk).tokens] : t \in s.tags}
          ELSE IF s.entities # {}
          THEN {[raised |-> "UnboundLocalError", snippets |-> written,
                 tokens |-> GetOrCreateToken(t, tk).tokens] : t \in s.entities}
          ELSE {[raised |-> "AttributeError", snippets |-> written,
                 tokens |-> tk]}

\* Note.input, /edit <ord>: the new content is set on the Snippet object and
\* the snippet is persisted
EditSnippet(ord, content) ==
  /\ InSession
  /\ LET k == ListIndex(ord, Len(obj.snippets)) IN
       IF k = 0
       THEN /\ res' = Res("IndexError", content, ord, Len(obj.snippets), << >>)
            /\ IF session.kind # "api"
               THEN session' = NoSession /\ obj' = NoObj
               ELSE UNCHANGED <<session, obj>>
            /\ UNCHANGED storeVars
       ELSE \E r \in PersistExisting([obj.snippets[k] EXCEPT !.content = content],
                                     snippets, tokens) :
              /\ snippets' = r.snippets
              /\ tokens' = r.tokens
              /\ res' = Res(r.raised, content, ord, Len(obj.snippets), k)
              /\ IF session.kind # "api"
                 THEN session' = NoSession /\ obj' = NoObj
                 ELSE /\ session' = session
                      /\ obj' = [obj EXCEPT !.snippets[k].content = content]
  /\ last' = Last("edit_snippet", session.note, FALSE, 0)
  /\ UNCHANGED <<notes, queue, enqueued, runVars, graphVars>>

KeepsSnippet(o, snippet_ord, sn) ==
  [ret |-> "deleted", obj |-> o, snippets |-> sn]

\* Note.handle_snippet_delete
HandleSnippetDelete(o, snippet_ord, sn) ==
  IF snippet_ord < 1 \/ snippet_ord > Len(o.snippets)
  THEN [ret |-> "ord not found", obj |-> o, snippets |-> sn]
  ELSE IF ~\E i \in DOMAIN sn : sn[i].id = o.snippets[snippet_ord].id
  THEN [ret |-> "id not found", obj |-> o, snippets |-> sn]
  ELSE [ret |-> "deleted",
        obj |-> [o EXCEPT !.snippets =
                   SubSeq(o.snippets, 1, snippet_ord - 1)
                     \o SubSeq(o.snippets, snippet_ord + 1, Len(o.snippets))],
        snippets |-> SelectSeq(sn, LAMBDA r : r.id # o.snippets[snippet_ord].id)]

\* handle_snippet_delete on the held object
DeleteSnippet(ord) ==
  /\ InSession
  /\ \E r \in {HandleSnippetDelete(obj, ord, snippets)} :
       /\ snippets' = r.snippets
       /\ obj' = r.obj
       /\ res' = Res("None", << >>, ord, Len(obj.snippets), r.ret)
  /\ last' = Last("delete_snippet", session.note, FALSE, 0)
  /\ UNCHANGED <<notes, tokens, session, queue, enqueued, runVars, graphVars>>

\* cli list: Note.search, then the table of the notes found
List(filters) ==
  /\ Idle
  /\ \E r \in {Search(filters, notes)} :
       res' = Res(r.raised, filters, 0, 0,
                  [i \in DOMAIN r.ids |->
                     TableRow(FromDBobject(r.ids[i], notes, snippets))])
  /\ last' = Last("list", 0, FALSE, 0)
  /\ UNCHANGED <<notes, storeVars, obj, session, queue, enqueued, runVars,
                 graphVars>>

\* a command starts on one of the database files
InitStore ==
  /\ \E st \in Stores :
       /\ notes = st.notes
       /\ snippets = st.snippets
       /\ tokens = st.tokens
  /\ obj = NoObj
  /\ res = NoRes
  /\ queue = << >>
  /\ session = NoSession
  /\ pc = "idle"
  /\ tasks = << >>
  /\ idx = 0
  /\ handled = << >>
  /\ ai = NoAnswer
  /\ last = Last("none", 0, FALSE, 0)
  /\ enqueued = {}
  /\ nodes = {}
  /\ edges = {}
  /\ lastLoc = NoLoc

\* the stored graphs that graph show is run on have the root and MaxStored
\* nodes, named out of the order of their ids
StoredNames == <<"Work", "Alpha", "Projects", "Beta", "Notes">>

StoredNodes ==
  {[id |-> 1, name |-> RootName]}
    \cup {[id |-> i + 1, name |-> StoredNames[i]] : i \in 1..MaxStored}

StoredPairs ==
  LET keys == {ROOT} \cup {i + 1 : i \in 1..MaxStored}
  IN {p \in keys \X keys : p[1] < p[2]}

\* a database whose edge rows join any of the stored nodes, cycles included
InitShow ==
  /\ nodes = StoredNodes
  /\ \E P \in SUBSET StoredPairs, turned \in BOOLEAN :
       edges = {[from_node |-> IF turned THEN p[2] ELSE p[1],
                 to_node |-> IF turned THEN p[1] ELSE p[2]] : p \in P}
  /\ lastLoc = NoLoc
  /\ notes = << >>
  /\ snippets = << >>
  /\ tokens = << >>
  /\ obj = NoObj
  /\ res = NoRes
  /\ queue = << >>
  /\ session = NoSession
  /\ pc = "idle"
  /\ tasks = << >>
  /\ idx = 0
  /\ handled = << >>
  /\ ai = NoAnswer
  /\ last = Last("none", 0, FALSE, 0)
  /\ enqueued = {}

\* the node names in the order of string comparison
NameOrder == <<"Alpha", "Beta", "Household", "Notes", "Personal", "Projects",
               "Work", "__ROOT__">>

BackwardsByName(S, g) ==
  LET names == SelectSeq(NameOrder, LAMBDA nm : \E k \in S : g.name[k] = nm)
  IN [i \in DOMAIN names |->
        CHOOSE k \in S : g.name[k] = names[Len(names) + 1 - i]]

\* sorted(keys, key=name): the keys S by the names of their rows
SortedByName(S, g) ==
  LET names == SelectSeq(NameOrder, LAMBDA nm : \E k \in S : g.name[k] = nm)
  IN [i \in DOMAIN names |-> CHOOSE k \in S : g.name[k] = names[i]]

RECURSIVE Dfs(_, _, _, _)
\* the dfs of display_nodes on the nx graph g, with its calls still to make
\* as a stack of [node, prefix, is_last]: a visited node prints nothing,
\* another prints prefix + connector + name (no connector under an empty
\* prefix) and calls dfs on its unvisited neighbours by name. A line is the
\* list of its pieces, "|-- " and "+-- " the connectors, "|   " and "    "
\* the indents
Dfs(stack, visited, out, g) ==
  IF stack = << >> THEN out
  ELSE LET f == Head(stack) IN
    IF f.node \in visited THEN Dfs(Tail(stack), visited, out, g)
    ELSE LET seen == visited \cup {f.node}
             connector == IF f.is_last THEN "+-- " ELSE "|-- "
             line == f.prefix
                       \o (IF f.prefix # << >> THEN <<connector>> ELSE << >>)
                       \o <<g.name[f.node]>>
             children == SortedByName({n \in NxNeighbors(f.node, g) : n \notin seen}, g)
             new_prefix == f.prefix \o <<IF f.is_last THEN "    " ELSE "|   ">>
             calls == [i \in DOMAIN children |->
                         [node |-> children[i], prefix |-> new_prefix,
                          is_last |-> i = Len(children)]]
         IN Dfs(calls \o Tail(stack), seen, Append(out, line), g)

\* Graph.display_nodes: the printed lines
DisplayNodes(g) ==
  IF ROOT \notin g.keys
  THEN << <<"ROOT node not found in the graph.">> >>
  ELSE Dfs(<<[node |-> ROOT, prefix |-> << >>, is_last |-> TRUE]>>, {}, << >>, g)

\* cli graph show: Graph.fromDB().display_nodes()
ShowGraph ==
  /\ Idle
  /\ res' = Res("None", << >>, 0, 0, DisplayNodes(FromDB(nodes, edges)))
  /\ last' = Last("graph_show", 0, FALSE, 0)
  /\ UNCHANGED <<notes, storeVars, obj, queue, session, enqueued, runVars,
                 graphVars>>

\* the values the token helpers are called with
TokenValues == {<<"a">>, <<"b">>, <<"e">>, <<"x">>}

\* get_or_create_token called for a tag or an entity; res.ret keeps the row
\* it returned
GetToken(value, use) ==
  /\ Idle
  /\ \E r \in {GetOrCreateToken(value, tokens)} :
       /\ tokens' = r.tokens
       /\ res' = Res("None", value, 0, Len(tokens), r.token)
  /\ last' = Last(use, 0, FALSE, 0)
  /\ UNCHANGED <<notes, snippets, obj, queue, session, enqueued, runVars,
                 graphVars>>

\* get_or_create_url called for a URL
GetUrl(value) ==
  /\ Idle
  /\ \E r \in {GetOrCreateUrl(value, tokens)} :
       /\ tokens' = r.tokens
       /\ res' = Res("None", value, 0, Len(tokens), r.token)
  /\ last' = Last("url", 0, FALSE, 0)
  /\ UNCHANGED <<notes, snippets, obj, queue, session, enqueued, runVars,
                 graphVars>>

NoteIds == 1..MaxNotes

Next ==
  \/ Create
  \/ InstallHandler
  \/ KeyboardInterrupt
  \/ \E n \in NoteIds : Edit(n)
  \/ Finish
  \/ Interrupt
  \/ Archive
  \/ \E n \in NoteIds, answer \in Answers : Delete(n, answer)
  \/ \E n \in NoteIds : DeleteDuringMagick(n)
  \/ \E n \in NoteIds : QueueAdd(n)
  \/ QueueClear
  \/ MagickStart
  \/ MagickStep
  \/ MagickEnd
  \/ InitGraph(DefaultRoots)

Spec == Init /\ [][Next]_vars

NextGraph ==
  \/ \E roots \in RootConfigs : InitGraph(roots)
  \/ \E location \in Paths : AddNode(location)
  \/ ShowGraph

SpecGraph == Init /\ [][NextGraph]_vars

NextNote ==
  \/ \E n \in NoteIds : NoteGet(n)
  \/ \E content \in Texts : AddSnippet(content)
  \/ \E ord \in 0..MaxOrd, content \in Texts : EditSnippet(ord, content)
  \/ \E ord \in 0..MaxOrd : DeleteSnippet(ord)
  \/ \E filters \in FilterLists : List(filters)
  \/ Archive
  \/ Finish
  \/ \E n \in NoteIds, answer \in Answers : Delete(n, answer)

SpecNote == InitStore /\ [][NextNote]_vars

NextToken ==
  \/ \E value \in TokenValues, use \in {"tag", "entity"} : GetToken(value, use)
  \/ \E value \in TokenValues : GetUrl(value)

SpecToken == InitStore /\ [][NextToken]_vars

NextShow == ShowGraph

SpecShow == InitShow /\ [][NextShow]_vars

\* ---------------------------------------------------------------- claims

\* the QueueDB rows with the given id
RowsOf(q, id) == {q[i] : i \in {j \in DOMAIN q : q[j].id = id}}

\* the row of the run's task list with the given id
TaskOf(id) == CHOOSE r \in Range(tasks) : r.id = id

\* C1: enqueue is idempotent. After any sequence of to_queue calls, no two
\* queue rows have the same (note_id, task), and every note enqueued since
\* the last clear has exactly one row per task type.
C1_EnqueueIdempotent ==
  /\ \A i, j \in DOMAIN queue :
       (queue[i].note_id = queue[j].note_id /\ queue[i].task = queue[j].task)
         => i = j
  /\ \A n \in enqueued : \A t \in QueueTask :
       Cardinality({i \in DOMAIN queue :
                      queue[i].note_id = n /\ queue[i].task = t}) = 1

\* to_queue has just run on a note that was enqueued already
C1_Witness ==
  /\ last.op = "to_queue"
  /\ last.again
  /\ Cardinality({i \in DOMAIN queue : queue[i].note_id = last.note}) = 3

\* C2: in a drain run no entry is handled while an entry of strictly lower
\* priority number of the run is still unhandled.
C2_PriorityOrder ==
  \A k \in DOMAIN handled : \A i \in DOMAIN tasks :
    order[tasks[i].task] < order[TaskOf(handled[k]).task]
      => \E j \in 1..(k - 1) : handled[j] = tasks[i].id

\* a run over two notes' entries, where the queue holds an EMBED row before
\* an ASSIGN_METADATA row, has handled the ASSIGN_METADATA entry of a note
\* that has an EMBED entry too
C2_Witness ==
  /\ pc = "done"
  /\ handled # << >>
  /\ TaskOf(handled[1]).task = "ASSIGN_METADATA"
  /\ \E i \in DOMAIN tasks :
       /\ tasks[i].task = "EMBED"
       /\ tasks[i].note_id = TaskOf(handled[1]).note_id
  /\ \E i, j \in DOMAIN queue :
       i < j /\ queue[i].task = "EMBED" /\ queue[j].task = "ASSIGN_METADATA"

\* C3: a drain run that ends has passed every entry of the run whose note
\* exists to the handler exactly once.
C3_DrainsWholeQueue ==
  pc = "done" =>
    \A i \in DOMAIN tasks :
      tasks[i].note_id \in DOMAIN notes
        => Cardinality({k \in DOMAIN handled : handled[k] = tasks[i].id}) = 1

\* C4: once an entry has been handled and the run has ended, its persisted
\* status is COMPLETED or FAILED, with a failure detail when FAILED.
C4_StatusAfterHandling ==
  pc = "done" =>
    \A k \in DOMAIN handled : \A r \in RowsOf(queue, handled[k]) :
      /\ r.status \in {"COMPLETED", "FAILED"}
      /\ r.status = "FAILED" => r.status_details # "None"

\* C5: when the collaborator's category suggestion is malformed, the run
\* ends normally with the SUGGEST_NODES entries FAILED and a reason stored.
C5_MalformedSuggestionFails ==
  (pc = "done" /\ ~SuggestNodesAccepts(ai.nodes)) =>
    \A i \in DOMAIN tasks :
      tasks[i].task = "SUGGEST_NODES" =>
        \E r \in RowsOf(queue, tasks[i].id) :
          r.status = "FAILED" /\ r.status_details # "None"

\* C6: when the collaborator is unavailable while an entry is handled, the
\* entry stays in the queue with status PENDING.
C6_UnavailableStaysPending ==
  (handled # << >> /\ ai.meta.kind = "unavailable") =>
    /\ RowsOf(queue, handled[Len(handled)]) # {}
    /\ \A r \in RowsOf(queue, handled[Len(handled)]) : r.status = "PENDING"

\* the handler raised ConnectionError and ended the run
C6_Witness ==
  /\ pc = "crashed"
  /\ ai.meta.kind = "unavailable"
  /\ handled # << >>
  /\ TaskOf(handled[1]).task = "ASSIGN_METADATA"
  /\ RowsOf(queue, handled[1]) # {}

\* C7: after ASSIGN_METADATA is handled successfully, the stripped tags and
\* entities the collaborator returned are in the note's tag and entity sets.
C7_MetadataMerged ==
  (/\ pc = "done"
   /\ handled # << >>
   /\ ai.meta.kind = "ok") =>
    \A k \in DOMAIN handled :
      TaskOf(handled[k]).task = "ASSIGN_METADATA" =>
        LET n == TaskOf(handled[k]).note_id
            m == StripPrefixes(ai.meta)
        IN /\ Range(m.tags) \subseteq notes[n].tags
           /\ Range(m.entities) \subseteq notes[n].entities

ParentOf(k) == (CHOOSE e \in edges : e.to_node = k).from_node

\* C9: get_or_create_location creates a node and an edge only for names
\* that do not exist yet under the pointer; a location that exists is
\* resolved without creating anything; the same location a second time
\* creates nothing and returns the same node; a location that differs from
\* the one before in its last name returns a different child of the same
\* parent.
C9_ReuseExistingPrefixes ==
  /\ lastLoc.ok =>
       /\ lastLoc.newNodes = lastLoc.newEdges
       /\ lastLoc.newNodes <= lastLoc.missing
  /\ (lastLoc.rel # "none" /\ lastLoc.missing = 0) =>
       lastLoc.ok /\ lastLoc.newNodes = 0 /\ lastLoc.newEdges = 0
  /\ lastLoc.rel = "same" =>
       /\ lastLoc.ok
       /\ lastLoc.newNodes = 0
       /\ lastLoc.newEdges = 0
       /\ lastLoc.ret = lastLoc.prevRet
  /\ (lastLoc.rel = "sibling" /\ lastLoc.ok) =>
       /\ lastLoc.newNodes <= 1
       /\ lastLoc.ret # lastLoc.prevRet
       /\ ParentOf(lastLoc.ret) = ParentOf(lastLoc.prevRet)

\* Work > Projects > Alpha has been applied a second time in a graph where
\* Alpha and Beta are the children of Projects
C9_Witness ==
  /\ lastLoc.rel = "same"
  /\ lastLoc.ok
  /\ \E w, pr, a, b \in nodes :
       /\ w.name = "Work" /\ pr.name = "Projects"
       /\ a.name = "Alpha" /\ b.name = "Beta"
       /\ ParentOf(w.id) = ROOT
       /\ ParentOf(pr.id) = w.id
       /\ ParentOf(a.id) = pr.id
       /\ ParentOf(b.id) = pr.id
       /\ lastLoc.ret = a.id
       /\ Cardinality(nodes) = 5

RECURSIVE ReachFrom(_)
\* the keys reachable from the keys S along the edges
ReachFrom(S) ==
  LET nxt == S \cup {e.to_node : e \in {x \in edges : x.from_node \in S}} IN
    IF nxt = S THEN S ELSE ReachFrom(nxt)

\* C10: every node but the root has exactly one incoming edge, the root has
\* none, and every node is reachable from the root.
C10_TreeInvariant ==
  /\ \A n \in nodes :
       IF n.name = RootName
       THEN {e \in edges : e.to_node \in {ROOT, n.id}} = {}
       ELSE Cardinality({e \in edges : e.to_node = n.id}) = 1
  /\ \A e \in edges : {e.from_node, e.to_node} \subseteq NxKeys(nodes)
  /\ nodes # {} => NxKeys(nodes) \subseteq ReachFrom({ROOT})

\* a call has created a node and then ended in an error
C10_Witness ==
  /\ ~lastLoc.ok
  /\ lastLoc.rel = "first"
  /\ lastLoc.newNodes > 0
  /\ Cardinality(nodes) > 3

\* C11: node identity is (name, parent). A location that ends in the name
\* the location before it ended in, under another parent, is created: the
\* call succeeds and returns a node of that name that is not the node the
\* call before returned and has another parent.
C11_SameNameTwoParents ==
  lastLoc.rel = "cousin" =>
    /\ lastLoc.ok
    /\ lastLoc.ret # lastLoc.prevRet
    /\ NameOf(lastLoc.ret, nodes) = NameOf(lastLoc.prevRet, nodes)
    /\ ParentOf(lastLoc.ret) # ParentOf(lastLoc.prevRet)

\* C12: the root sentinel is never shown. No line that graph show prints
\* carries the name of the root row.
C12_RootNeverShown ==
  last.op = "graph_show" =>
    \A i \in DOMAIN res.ret : res.ret[i][Len(res.ret[i])] # RootName

\* the union of the sets the Snippet objects of a Note object carry in a field
SnippetUnion(o, field) == UNION {o.snippets[i][field] : i \in DOMAIN o.snippets}

\* C13: for every note that list shows, tagsAll is the union of the note's
\* own tags and the tags of all its snippets, the same for entitiesAll and
\* timesAll, and the note's own sets are as they were.
C13_AllIsUnion ==
  (last.op = "list" /\ res.raised = "None") =>
    \A i \in DOMAIN res.ret :
      LET row == res.ret[i]
          o == FromDBobject(row.id, notes, snippets)
      IN /\ row.tags = o.tags \cup SnippetUnion(o, "tags")
         /\ row.entities = o.entities \cup SnippetUnion(o, "entities")
         /\ row.times = o.times \cup SnippetUnion(o, "times")
         /\ row.own = [tags |-> o.tags, entities |-> o.entities,
                       times |-> o.times]

\* list has shown a note with two snippets whose tags and entities are not
\* all among the note's own
C13_Witness ==
  /\ last.op = "list"
  /\ res.raised = "None"
  /\ \E i \in DOMAIN res.ret :
       /\ res.ret[i].snippets = 2
       /\ res.ret[i].own.tags # {}
       /\ res.ret[i].tags # res.ret[i].own.tags
       /\ res.ret[i].entities # res.ret[i].own.entities

\* C14: add_snippet on a tags-only text returns normally, creates no snippet
\* row, leaves the note's snippet list as it was, and the note's persisted
\* tag set becomes the set before united with the extracted tags.
C14_TagsOnlyMerged ==
  [][(last'.op = "add_snippet" /\ ContainsTagsOnly(res'.text)) =>
       /\ res'.raised = "None"
       /\ snippets' = snippets
       /\ obj'.snippets = obj.snippets
       /\ last'.note \in DOMAIN notes'
       /\ notes'[last'.note].tags =
            notes[last'.note].tags \cup ExtractTagsAndEntities(res'.text).tags]_vars

\* C15: add_snippet on a text that is not tags-only returns normally and
\* appends one snippet row of the note, last in the note's list, whose tag
\* and entity links are the extracted sets; the note's own tags are as they
\* were.
C15_SnippetCreated ==
  [][(last'.op = "add_snippet" /\ ~ContainsTagsOnly(res'.text)) =>
       /\ res'.raised = "None"
       /\ Len(snippets') = Len(snippets) + 1
       /\ SubSeq(snippets', 1, Len(snippets)) = snippets
       /\ LET row == snippets'[Len(snippets')] IN
            /\ row.note_id = last'.note
            /\ row.content = res'.text
            /\ row.tags = ExtractTagsAndEntities(res'.text).tags
            /\ row.entities = ExtractTagsAndEntities(res'.text).entities
       /\ Len(obj'.snippets) = Len(obj.snippets) + 1
       /\ notes'[last'.note].tags = notes[last'.note].tags]_vars

\* C16: editing the snippet at an ordinal of the note's list returns
\* normally, the snippet's row keeps its place and gets the new content,
\* and its tag and entity links are the tags and entities extracted from
\* the new text.
C16_EditRelinks ==
  [][(last'.op = "edit_snippet" /\ res'.ord \in 1..res'.len) =>
       /\ res'.raised = "None"
       /\ [i \in DOMAIN snippets' |-> snippets'[i].id]
            = [i \in DOMAIN snippets |-> snippets[i].id]
       /\ \A i \in DOMAIN snippets' :
            snippets'[i].id = obj.snippets[res'.ord].id =>
              /\ snippets'[i].content = res'.text
              /\ snippets'[i].tags = ExtractTagsAndEntities(res'.text).tags
              /\ snippets'[i].entities
                   = ExtractTagsAndEntities(res'.text).entities]_vars

\* C17: handle_snippet_delete with an ordinal outside 1..len(snippets)
\* reports it, raises nothing and leaves the note's list and the store as
\* they were; with an ordinal inside the range it removes that snippet from
\* the list and its row from the store, the others staying in their order.
C17_DeleteSnippet ==
  [][last'.op = "delete_snippet" =>
       /\ res'.raised = "None"
       /\ notes' = notes
       /\ tokens' = tokens
       /\ IF res'.ord \in 1..Len(obj.snippets)
          THEN /\ res'.ret = "deleted"
               /\ obj'.snippets =
                    [i \in 1..(Len(obj.snippets) - 1) |->
                       IF i < res'.ord THEN obj.snippets[i]
                       ELSE obj.snippets[i + 1]]
               /\ snippets' =
                    SelectSeq(snippets,
                              LAMBDA r : r.id # obj.snippets[res'.ord].id)
               /\ Len(snippets') = Len(snippets) - 1
          ELSE /\ res'.ret = "ord not found"
               /\ obj' = obj
               /\ snippets' = snippets]_vars

\* the first of the two snippets of a note has been deleted, and the store
\* holds a snippet of another note
C17_Witness ==
  /\ last.op = "delete_snippet"
  /\ res.ord = 1
  /\ res.len = 2
  /\ res.ret = "deleted"
  /\ Len(obj.snippets) = 1
  /\ Len(snippets) = 2

\* the ids of the notes in the table of the last list command
ListedIds == {res.ret[i].id : i \in DOMAIN res.ret}

\* C18: list with no filter shows exactly the notes with active = true: no
\* archived note, and every stored note that is not archived.
C18_EmptyFilterActiveOnly ==
  (last.op = "list" /\ res.text = << >>) =>
    /\ res.raised = "None"
    /\ ListedIds = {n \in DOMAIN notes : notes[n].active}

\* the text f occurs in the text s
Contains(s, f) == \E i \in 1..(Len(s) - Len(f) + 1) : SubSeq(s, i, i + Len(f) - 1) = f

\* the note n satisfies the filter f: "#t" by a tag t, "@e" by an entity e,
\* another text by a snippet whose content contains it
Satisfies(n, f) ==
  LET o == FromDBobject(n, notes, snippets) IN
    IF Head(f) = "#" THEN Tail(f) \in o.tags \cup SnippetUnion(o, "tags")
    ELSE IF Head(f) = "@"
         THEN Tail(f) \in o.entities \cup SnippetUnion(o, "entities")
         ELSE \E i \in DOMAIN o.snippets : Contains(o.snippets[i].content, f)

\* C19: list with filters shows the notes that satisfy every filter.
C19_FiltersAnded ==
  (last.op = "list" /\ res.text # << >>) =>
    /\ res.raised = "None"
    /\ ListedIds = {n \in DOMAIN notes :
                      \A i \in DOMAIN res.text : Satisfies(n, res.text[i])}

\* C20: the hard delete of a note removes the note's row with its links and
\* all its snippet rows with their links, leaves the rows of the other notes
\* as they were, and removes no token row.
C20_DeleteKeepsTokens ==
  [][last'.op = "delete" =>
       /\ last'.note \notin DOMAIN notes'
       /\ \A n \in DOMAIN notes' : notes'[n] = notes[n]
       /\ snippets' = SelectSeq(snippets, LAMBDA r : r.note_id # last'.note)
       /\ \A i \in DOMAIN snippets' : snippets'[i].note_id # last'.note
       /\ tokens' = tokens]_vars

\* the token values some remaining note or snippet links
LinkedTokens ==
  UNION {notes[n].tags \cup notes[n].entities : n \in DOMAIN notes}
    \cup UNION {snippets[i].tags \cup snippets[i].entities : i \in DOMAIN snippets}

\* a note has been deleted and tokens that only its rows linked are still
\* stored
C20_Witness ==
  /\ last.op = "delete"
  /\ {<<"b">>, <<"e">>} \subseteq ValuesOf(tokens)
  /\ {<<"b">>, <<"e">>} \cap LinkedTokens = {}

\* C21: a delete whose confirmation is answered with anything but y or yes
\* leaves every stored row as it was (notes, snippets, tokens, queue entries
\* and the graph); the delete of the interrupt handler, called with
\* confirm=False, removes the note without an answer
C21_DeclinedDeleteKeepsAll ==
  [][/\ (/\ last'.op \in {"delete", "delete_none"}
         /\ last'.note \in DOMAIN notes
         /\ Lower(res'.ret) \notin {"y", "yes"})
          => UNCHANGED <<notes, snippets, tokens, queue, nodes, edges>>
     /\ last'.op = "interrupt"
          => /\ last'.note \in DOMAIN notes
             /\ last'.note \notin DOMAIN notes'
             /\ res'.ret = << >>]_vars

\* a stored note with queue entries, its delete answered n
C21_Witness ==
  /\ last.op = "delete_none"
  /\ last.note \in DOMAIN notes
  /\ res.ret = "n"
  /\ \E i \in 1..Len(queue) : queue[i].note_id = last.note

\* C22: in a creation session a user interrupt ends the session with
\* nothing of the note left (no note row, snippet row or queue entry), and
\* the finish signal ends it with the note kept and its tasks enqueued
C22_InterruptLeavesNothing ==
  [][/\ last'.op \in {"interrupt", "keyboard_interrupt"}
          => /\ session' = NoSession
             /\ last'.note \notin DOMAIN notes'
             /\ SnippetsOf(snippets', last'.note) = << >>
             /\ \A i \in 1..Len(queue') : queue'[i].note_id # last'.note
     /\ (last'.op = "to_queue" /\ session.kind = "create")
          => /\ session' = NoSession
             /\ last'.note \in DOMAIN notes'
             /\ \A t \in Range(TaskList) :
                  \E i \in 1..Len(queue') :
                    queue'[i].note_id = last'.note /\ queue'[i].task = t]_vars

\* C23: no two token rows have the same value, and a get-or-create call for a
\* value, used as a tag, an entity or a URL, returns the row that has the
\* value when there is one and otherwise adds exactly one row, which it
\* returns
C23_TokenDeduplication ==
  [][last'.op \in {"tag", "entity", "url"} =>
       /\ \A i, j \in DOMAIN tokens' :
            tokens'[i].value = tokens'[j].value => i = j
       /\ res'.ret.value = res'.text
       /\ \E i \in DOMAIN tokens' : tokens'[i] = res'.ret
       /\ IF res'.text \in ValuesOf(tokens)
          THEN tokens' = tokens
          ELSE tokens' = Append(tokens, res'.ret)]_vars

\* a call for a URL has returned, with no row added, the row that an
\* earlier call had added
C23_Witness ==
  /\ last.op = "url"
  /\ res.len = Len(tokens)
  /\ Len(tokens) >= 2
  /\ res.ret = tokens[Len(tokens)]
  /\ res.ret.id > 3

RECURSIVE Depth(_)
\* the number of edges between the root and the node k
Depth(k) == IF k = ROOT THEN 0 ELSE 1 + Depth(ParentOf(k))

\* C24: at every name of a location the pointer moves one level down, to a
\* child, never back to its parent: the node that a call for a location of k
\* names returns lies k levels under the root
C24_ReturnedNodeAtDepth ==
  (lastLoc.rel # "none" /\ lastLoc.ok) => Depth(lastLoc.ret) = lastLoc.len

\* C25: with every node added by get_or_create_location, no node has two
\* neighbours of the same name, and no call ends in the error for more than
\* one match
C25_NoTwoNeighboursOfOneName ==
  /\ \A k \in NxKeys(nodes) :
       \A a, b \in Neighbors(k, edges) :
         NameOf(a, nodes) = NameOf(b, nodes) => a = b
  /\ lastLoc.err # "ValueError: Multiple nodes"

\* a call has found its names among the several neighbours of the nodes on
\* its way
C25_Witness ==
  /\ lastLoc.rel # "none"
  /\ lastLoc.ok
  /\ lastLoc.len = 2
  /\ lastLoc.newNodes = 0
  /\ Cardinality(Neighbors(ROOT, edges)) >= 2
  /\ Cardinality(Neighbors(ParentOf(lastLoc.ret), edges)) >= 2

\* the nodes of the graph named by a list of names from the root down
PathExists(path, ns, es) == ExistingLen(path, 1, ROOT, ns, es) = Len(path)

\* C26: a configured location whose last segment has a "|" stands for one
\* location per piece, each with the same names before it and each added on
\* its own. After a graph init of an empty graph that ends without an error
\* every such location is in the graph and no node is named with a "|"; for
\* "Work > Projects|Alpha", Work is the one category under the root and its
\* children are exactly Projects and Alpha
C26_LastSegmentExpanded ==
  [][(last'.op = "graph_init" /\ nodes = {} /\ res'.text # << >>
        /\ lastLoc'.ok) =>
       /\ \A i \in DOMAIN res'.text :
            LET loc == res'.text[i]
                before == [j \in 1..(Len(loc) - 1) |-> Joined(loc[j])]
            IN \A piece \in Range(loc[Len(loc)]) :
                 Len(loc[Len(loc)]) > 1 =>
                   PathExists(before \o <<piece>>, nodes', edges')
       /\ \A n \in nodes' : n.name \in Names \cup {RootName}
       /\ res'.text = <<WorkProjectsOrAlpha>> =>
            \E w \in NxKeys(nodes') :
              /\ NameOf(w, nodes') = "Work"
              /\ ChildrenOnly(ROOT, edges') = {w}
              /\ Cardinality(ChildrenOnly(w, edges')) = 2
              /\ {NameOf(c, nodes') : c \in ChildrenOnly(w, edges')}
                   = {"Projects", "Alpha"}]_vars

\* the graph init of "Work > Projects|Alpha" has added Work, Projects and
\* then Alpha
C26_Witness ==
  /\ last.op = "graph_init"
  /\ res.text = <<WorkProjectsOrAlpha>>
  /\ lastLoc.ok
  /\ lastLoc.rel = "sibling"
  /\ lastLoc.newNodes = 1
  /\ Cardinality(nodes) = 4

\* C29: after the get_or_create_location calls of a command on the Graph
\* object it loaded, loading the stored rows again gives the graph that the
\* object holds: the same nodes, names and edges, a node of a one-name
\* location joined to the root
C29_StoredGraphIsHeldGraph ==
  lastLoc.rel # "none" =>
    /\ FromDB(nodes, edges) = lastLoc.nx
    /\ (lastLoc.ok /\ lastLoc.len = 1) =>
         {ROOT, lastLoc.ret} \in FromDB(nodes, edges).adj

\* a call on a loaded graph that had a node under the root has added two
\* nodes
C29_Witness ==
  /\ lastLoc.rel # "none"
  /\ lastLoc.ok
  /\ lastLoc.newNodes = 2
  /\ Cardinality(lastLoc.nx.adj) >= 3
  /\ Cardinality(nodes) = Cardinality(lastLoc.nx.keys)

RECURSIVE ReachUndirected(_)
\* the keys joined to the keys S by edge rows, in either direction
ReachUndirected(S) ==
  LET nxt == S \cup UNION {Neighbors(k, edges) : k \in S} IN
    IF nxt = S THEN S ELSE ReachUndirected(nxt)

\* the place of a name in the order of string comparison
Rank(name) == CHOOSE i \in DOMAIN NameOrder : NameOrder[i] = name

\* C27: graph show ends on every stored graph, one with a cycle too: it
\* prints one line for each node that the edges join to the root and none
\* for another, and the lines of the children of a node come in the order of
\* their names
C27_DisplayVisitsOnce ==
  (last.op = "graph_show" /\ ROOT \in NxKeys(nodes)) =>
    LET lines == res.ret
        shown == [i \in DOMAIN lines |-> lines[i][Len(lines[i])]]
    IN /\ Len(lines) = Cardinality(ReachUndirected({ROOT}))
       /\ Range(shown) = {NameOf(k, nodes) : k \in ReachUndirected({ROOT})}
       /\ \A i, j \in DOMAIN lines :
            (/\ i < j
             /\ Len(lines[i]) = Len(lines[j])
             /\ \A m \in (i + 1)..(j - 1) : Len(lines[m]) >= Len(lines[i]))
              => Rank(shown[i]) < Rank(shown[j])

\* a graph with a cycle through the root, every node of it joined to the
\* root, has been shown
C27_Witness ==
  /\ last.op = "graph_show"
  /\ Cardinality(edges) > Cardinality(nodes)
  /\ Len(res.ret) = Cardinality(nodes)
  /\ \E a, b \in NxKeys(nodes) \ {ROOT} :
       /\ a # b
       /\ {a, b} \subseteq Neighbors(ROOT, edges)
       /\ a \in Neighbors(b, edges)

\* C28: an edit that names an ordinal outside 1..n, n the number of snippets
\* of the note (0 or n + 1, say), modifies no snippet
C28_BadOrdinalEditsNothing ==
  [][(last'.op = "edit_snippet" /\ (res'.ord < 1 \/ res'.ord > res'.len))
       => snippets' = snippets]_vars

\* C30: a hard delete of a note, the one of the interrupt handler too, leaves
\* no queue entry of that note; and a turn of the drain loop whose entry
\* names a note that is not stored does not handle the entry and goes on to
\* the entry after it
C30_QueueEntriesGoWithNote ==
  [][/\ last'.op \in {"delete", "interrupt"}
          => \A i \in DOMAIN queue' : queue'[i].note_id # last'.note
     /\ (/\ last'.op \in {"magick_step", "magick_skip"}
         /\ idx <= Len(tasks)
         /\ tasks[idx].note_id \notin DOMAIN notes)
          => /\ handled' = handled
             /\ queue' = queue
             /\ notes' = notes
             /\ idx' = idx + 1
             /\ pc' = "loop"]_vars

\* a drain has passed the entries of a note deleted after it listed the
\* queue and has handled the entry of another note
C30_Witness ==
  /\ last.op = "magick_step"
  /\ Len(handled) = 1
  /\ idx >= 2
  /\ tasks[1].note_id \notin DOMAIN notes
  /\ \A i \in DOMAIN queue : queue[i].note_id # tasks[1].note_id

====
